---- MODULE Spec2Model ----
(***************************************************************************)
(* Model of src/trade_chart.py: the trade enrichment pipeline of           *)
(* fetch_and_chart_trades.  The data frame df is a sequence of rows, one   *)
(* record per tick, whose columns are added by the successive steps of the *)
(* function; each action is one step of the function body, in source order.*)
(*                                                                         *)
(* Time is counted in units of 1/UnitsPerMinute of a minute since an       *)
(* arbitrary UTC midnight.  Prices are fixed-point integers, so float      *)
(* equality of prices is integer equality; a quotient of floats is kept as *)
(* the exact pair (numerator, denominator).                                *)
(***************************************************************************)
EXTENDS Integers, Sequences, FiniteSets

VARIABLES api_key, pc, trades, df, hourly_stats, day_high, day_low, csv,
          volume_by_minute

vars == <<api_key, pc, trades, df, hourly_stats, day_high, day_low, csv,
          volume_by_minute>>

\* ---------------------------------------------------------------- bounds
\* Longest fetched batch.
MaxLen == 3
\* Resolution of the clock: time units per minute.
UnitsPerMinute == 2

\* ------------------------------------------------------------- calendar
MinutesPerHour == 60
HoursPerDay == 24
UnitsPerHour == UnitsPerMinute * MinutesPerHour
UnitsPerDay == UnitsPerHour * HoursPerDay

\* pd.Timestamp(start_date).tz_localize('UTC'): midnight UTC of start_date.
start_ts == UnitsPerDay
\* pd.Timestamp(end_date).tz_localize('UTC'): midnight UTC of the day after.
end_ts == 2 * UnitsPerDay

\* America/New_York on the day of start_date: daylight time ends at 06:00
\* UTC; the zone is 4 hours west of UTC before that instant and 5 after.
DstEnd == start_ts + 6 * UnitsPerHour
EdtOffset == 4 * UnitsPerHour
EstOffset == 5 * UnitsPerHour

\* --------------------------------------------------------------- inputs
\* Event times of the batches that exercise the clock: start itself, the
\* minute after start, half an hour either side of the end of daylight time
\* (one wall-clock minute, met twice), the end, and the first instant after
\* the end.
ClockTimes == {start_ts, start_ts + UnitsPerMinute,
               DstEnd - UnitsPerHour \div 2, DstEnd + UnitsPerHour \div 2,
               end_ts, end_ts + 1}
ClockTrades == [ts_event : ClockTimes, price : {10}, size : {0, 1, 3}]

\* Event times of the batches that exercise the prices: the last instant
\* before start, and two instants in range that fall in different hours.
PriceTimes == {start_ts - 1, start_ts, DstEnd}
PriceTrades == [ts_event : PriceTimes, price : {10, 11, 12}, size : {2}]

\* What get_range may return: any finite sequence of trades, in any order.
Batches == UNION {[1..n -> ClockTrades] \cup [1..n -> PriceTrades] :
                  n \in 0..MaxLen}

\* -------------------------------------------------------------- helpers
\* The float NaN that pandas returns for the max or min of an empty column;
\* it lies outside the prices.
NaN == -1

\* Series.dt.tz_convert('America/New_York'): the wall-clock reading of an
\* instant.
TzConvert(t) == IF t < DstEnd THEN t - EdtOffset ELSE t - EstOffset

\* strftime('%Y-%m-%d %H:00') of a wall-clock reading: (date, hour).
HourKey(w) == <<w \div UnitsPerDay, (w % UnitsPerDay) \div UnitsPerHour>>

MinuteKeyNoMinute(w) ==
    <<w \div UnitsPerDay, (w % UnitsPerDay) \div UnitsPerHour, 0>>

\* strftime('%Y-%m-%d %H:%M') of a wall-clock reading: (date, hour, minute).
MinuteKey(w) ==
    <<w \div UnitsPerDay, (w % UnitsPerDay) \div UnitsPerHour,
      (w % UnitsPerHour) \div UnitsPerMinute>>

\* pd.to_datetime of a minute key: the wall-clock reading it names.
ToDatetime(k) == k[1] * UnitsPerDay + k[2] * UnitsPerHour + k[3] * UnitsPerMinute

\* Order of the formatted keys as strings: every field is zero-padded, so
\* the strings compare as the tuples of their fields do.
KeyLeq(a, b) ==
    \E k \in 1..(Len(a) + 1) :
        /\ \A j \in 1..(k - 1) : a[j] = b[j]
        /\ k = Len(a) + 1 \/ a[k] < b[k]

\* The group keys of a groupby, which sorts them ascending.
RECURSIVE SortedKeys(_)
SortedKeys(S) ==
    IF S = {} THEN <<>>
    ELSE LET m == CHOOSE x \in S : \A y \in S : KeyLeq(x, y)
         IN  <<m>> \o SortedKeys(S \ {m})

\* Series.max() and Series.min(): NaN on an empty column.
SeriesMax(S) == IF S = {} THEN NaN ELSE CHOOSE x \in S : \A y \in S : y <= x
SeriesMin(S) == IF S = {} THEN NaN ELSE CHOOSE x \in S : \A y \in S : x <= y

\* Series.cumsum() at row n of a column c.
RECURSIVE CumSum(_, _)
CumSum(c, n) == IF n = 0 THEN 0 ELSE CumSum(c, n - 1) + c[n]

\* Float division of two columns; a zero denominator is kept, so that 0/0
\* (NaN) is told from every number.
FloatDiv(n, m) == [num |-> n, den |-> m]
IsNaN(q) == q.den = 0

\* calculate_vwap
calculate_vwap(d) ==
    LET volume_price == [i \in 1..Len(d) |-> d[i].price * d[i].size]
        size == [i \in 1..Len(d) |-> d[i].size]
    IN  [i \in 1..Len(d) |->
           [idx |-> d[i].idx, ts_event |-> d[i].ts_event,
            ts_event_et |-> d[i].ts_event_et,
            price |-> d[i].price, size |-> d[i].size,
            volume_price |-> volume_price[i],
            cumulative_volume |-> CumSum(size, i),
            cumulative_volume_price |-> CumSum(volume_price, i),
            vwap |-> FloatDiv(CumSum(volume_price, i), CumSum(size, i))]]

InRangeOpenEnd(t) == t >= start_ts /\ t < end_ts

InRangeNoEnd(t) == t >= start_ts

\* (df['ts_event'] >= start_ts) & (df['ts_event'] <= end_ts)
InRange(t) == t >= start_ts /\ t <= end_ts

\* df.sort_values('ts_event'): the default kind is quicksort, which orders
\* the rows by the key and promises nothing about rows with equal keys.
\* Every arrangement of the rows that is ordered by ts_event is an outcome.
SortValues(d) ==
    LET n == Len(d)
        Perms == {p \in [1..n -> 1..n] : \A i, j \in 1..n : i # j => p[i] # p[j]}
    IN  {[i \in 1..n |-> d[p[i]]] :
           p \in {q \in Perms : \A i, j \in 1..n :
                                   i < j => d[q[i]].ts_event <= d[q[j]].ts_event}}

HourlyStatsUngrouped(d) ==
    LET All == {d[i].price : i \in 1..Len(d)}
        keys == SortedKeys({HourKey(d[i].ts_event_et) : i \in 1..Len(d)})
    IN  [k \in 1..Len(keys) |->
           [hour |-> keys[k], max |-> SeriesMax(All), min |-> SeriesMin(All)]]

\* df.groupby('hour')['price'].agg(['max', 'min']).reset_index()
HourlyStats(d) ==
    LET keys == SortedKeys({HourKey(d[i].ts_event_et) : i \in 1..Len(d)})
        Group(h) == {d[i].price : i \in {j \in 1..Len(d) :
                                           HourKey(d[j].ts_event_et) = h}}
    IN  [k \in 1..Len(keys) |->
           [hour |-> keys[k], max |-> SeriesMax(Group(keys[k])),
            min |-> SeriesMin(Group(keys[k]))]]

IsHourlyHighFirstOnly(d, hs, i) ==
    \E k \in 1..Len(hs) :
        /\ HourKey(d[i].ts_event_et) = hs[k].hour
        /\ d[i].price = hs[k].max
        /\ \A j \in 1..(i - 1) :
              ~(HourKey(d[j].ts_event_et) = hs[k].hour /\ d[j].price = hs[k].max)

\* The loop over hourly_stats: a row is flagged once some row of the
\* statistics has its hour and its price as max (resp. min).
IsHourlyHigh(d, hs, i) ==
    \E k \in 1..Len(hs) :
        HourKey(d[i].ts_event_et) = hs[k].hour /\ d[i].price = hs[k].max
IsHourlyLow(d, hs, i) ==
    \E k \in 1..Len(hs) :
        HourKey(d[i].ts_event_et) = hs[k].hour /\ d[i].price = hs[k].min

NoteHourOverDay(r) ==
    LET n0 == ""
        n1 == IF r.is_day_high THEN "DAY_HIGH" ELSE n0
        n2 == IF r.is_day_low THEN "DAY_LOW" ELSE n1
        n3 == IF r.is_hourly_high THEN "HOUR_HIGH" ELSE n2
        n4 == IF r.is_hourly_low THEN "HOUR_LOW" ELSE n3
    IN  n4

\* The note column: four assignments in turn, each overwriting the last.
Note(r) ==
    LET n0 == ""
        n1 == IF r.is_hourly_high THEN "HOUR_HIGH" ELSE n0
        n2 == IF r.is_hourly_low THEN "HOUR_LOW" ELSE n1
        n3 == IF r.is_day_high THEN "DAY_HIGH" ELSE n2
        n4 == IF r.is_day_low THEN "DAY_LOW" ELSE n3
    IN  n4

\* to_csv of ['ts_event_et', 'price', 'vwap', 'size', 'note'] (the symbol
\* column is the same in every row); a NaN is written as the empty field.
CsvRow(r) ==
    [ts_event_et |-> r.ts_event_et, price |-> r.price,
     vwap |-> IF IsNaN(r.vwap) THEN <<>> ELSE <<r.vwap.num, r.vwap.den>>,
     size |-> r.size, note |-> r.note]

RECURSIVE GroupSize(_, _, _)
GroupSize(d, m, n) ==
    IF n = 0 THEN 0
    ELSE GroupSize(d, m, n - 1)
           + (IF MinuteKey(d[n].ts_event_et) = m THEN d[n].size ELSE 0)

VolumeByMinuteFirst(d) ==
    LET keys == SortedKeys({MinuteKey(d[i].ts_event_et) : i \in 1..Len(d)})
        First(m) == CHOOSE i \in 1..Len(d) :
                       /\ MinuteKey(d[i].ts_event_et) = m
                       /\ \A j \in 1..(i - 1) : MinuteKey(d[j].ts_event_et) # m
    IN  [k \in 1..Len(keys) |->
           [minute |-> keys[k], size |-> d[First(keys[k])].size,
            ts_event_et |-> ToDatetime(keys[k])]]

\* df.groupby('minute')['size'].sum().reset_index(), with the ts_event_et
\* column parsed back from the key.
VolumeByMinute(d) ==
    LET keys == SortedKeys({MinuteKey(d[i].ts_event_et) : i \in 1..Len(d)})
    IN  [k \in 1..Len(keys) |->
           [minute |-> keys[k], size |-> GroupSize(d, keys[k], Len(d)),
            ts_event_et |-> ToDatetime(keys[k])]]

\* --------------------------------------------------------------- states
Init ==
    /\ api_key \in BOOLEAN
    /\ pc = "start"
    /\ trades = <<>>
    /\ df = <<>>
    /\ hourly_stats = <<>>
    /\ day_high = NaN
    /\ day_low = NaN
    /\ csv = <<>>
    /\ volume_by_minute = <<>>

\* Module level: without DATABENTO_API_KEY the import raises ValueError.
MissingApiKey ==
    /\ pc = "start"
    /\ ~api_key
    /\ pc' = "raised"
    /\ UNCHANGED <<api_key, trades, df, hourly_stats, day_high, day_low, csv,
                   volume_by_minute>>

\* get_range, to_df, and the ts_event and ts_event_et columns.
Fetch ==
    /\ pc = "start"
    /\ api_key
    /\ \E b \in Batches :
          /\ trades' = b
          /\ df' = [i \in 1..Len(b) |->
                      [idx |-> i, ts_event |-> b[i].ts_event,
                       ts_event_et |-> TzConvert(b[i].ts_event),
                       price |-> b[i].price, size |-> b[i].size]]
    /\ pc' = "fetched"
    /\ UNCHANGED <<api_key, hourly_stats, day_high, day_low, csv,
                   volume_by_minute>>

\* df = calculate_vwap(df)
CalculateVwap ==
    /\ pc = "fetched"
    /\ df' = calculate_vwap(df)
    /\ pc' = "vwap"
    /\ UNCHANGED <<api_key, trades, hourly_stats, day_high, day_low, csv,
                   volume_by_minute>>

\* df = df[(df['ts_event'] >= start_ts) & (df['ts_event'] <= end_ts)]
FilterRange ==
    /\ pc = "vwap"
    /\ df' = SelectSeq(df, LAMBDA r : InRange(r.ts_event))
    /\ pc' = "filtered"
    /\ UNCHANGED <<api_key, trades, hourly_stats, day_high, day_low, csv,
                   volume_by_minute>>

\* df = df.sort_values('ts_event')
Sort ==
    /\ pc = "filtered"
    /\ df' \in SortValues(df)
    /\ pc' = "sorted"
    /\ UNCHANGED <<api_key, trades, hourly_stats, day_high, day_low, csv,
                   volume_by_minute>>

\* The hour column, hourly_stats, day_high, day_low and the four flags.
FlagHighLow ==
    /\ pc = "sorted"
    /\ LET hs == HourlyStats(df)
           Price == {df[i].price : i \in 1..Len(df)}
           hi == SeriesMax(Price)
           lo == SeriesMin(Price)
       IN  /\ hourly_stats' = hs
           /\ day_high' = hi
           /\ day_low' = lo
           /\ df' = [i \in 1..Len(df) |->
                       [idx |-> df[i].idx, ts_event |-> df[i].ts_event,
                        ts_event_et |-> df[i].ts_event_et,
                        price |-> df[i].price, size |-> df[i].size,
                        vwap |-> df[i].vwap,
                        hour |-> HourKey(df[i].ts_event_et),
                        is_hourly_high |-> IsHourlyHigh(df, hs, i),
                        is_hourly_low |-> IsHourlyLow(df, hs, i),
                        is_day_high |-> (df[i].price = hi),
                        is_day_low |-> (df[i].price = lo)]]
    /\ pc' = "flagged"
    /\ UNCHANGED <<api_key, trades, csv, volume_by_minute>>

\* The note column.
AddNote ==
    /\ pc = "flagged"
    /\ df' = [i \in 1..Len(df) |->
                [idx |-> df[i].idx, ts_event |-> df[i].ts_event,
                 ts_event_et |-> df[i].ts_event_et,
                 price |-> df[i].price, size |-> df[i].size,
                 vwap |-> df[i].vwap, hour |-> df[i].hour,
                 is_hourly_high |-> df[i].is_hourly_high,
                 is_hourly_low |-> df[i].is_hourly_low,
                 is_day_high |-> df[i].is_day_high,
                 is_day_low |-> df[i].is_day_low,
                 note |-> Note(df[i])]]
    /\ pc' = "noted"
    /\ UNCHANGED <<api_key, trades, hourly_stats, day_high, day_low, csv,
                   volume_by_minute>>

\* df[[...]].to_csv(output_file, index=False)
ToCsv ==
    /\ pc = "noted"
    /\ csv' = [i \in 1..Len(df) |-> CsvRow(df[i])]
    /\ pc' = "saved"
    /\ UNCHANGED <<api_key, trades, df, hourly_stats, day_high, day_low,
                   volume_by_minute>>

\* The minute column and volume_by_minute; the chart is drawn from df and
\* volume_by_minute as they stand.
AggregateVolume ==
    /\ pc = "saved"
    /\ volume_by_minute' = VolumeByMinute(df)
    /\ pc' = "done"
    /\ UNCHANGED <<api_key, trades, df, hourly_stats, day_high, day_low, csv>>

Next ==
    \/ MissingApiKey
    \/ Fetch
    \/ CalculateVwap
    \/ FilterRange
    \/ Sort
    \/ FlagHighLow
    \/ AddNote
    \/ ToCsv
    \/ AggregateVolume

Spec == Init /\ [][Next]_vars

\* ---------------------------------------------------------------- claims
PostFilter == {"filtered", "sorted", "flagged", "noted", "saved", "done"}
PostSort == {"sorted", "flagged", "noted", "saved", "done"}
PostFlag == {"flagged", "noted", "saved", "done"}
PostCsv == {"saved", "done"}

\* The fetched trades whose event time lies in [start, end].
Kept == {k \in 1..Len(trades) :
           start_ts <= trades[k].ts_event /\ trades[k].ts_event <= end_ts}

\* The sum of the function f over the set S.
RECURSIVE SumOver(_, _)
SumOver(f, S) ==
    IF S = {} THEN 0
    ELSE LET x == CHOOSE y \in S : TRUE IN f[x] + SumOver(f, S \ {x})

\* C1: the vwap of the row at position i of the filtered, time-ordered
\* frame is sum(price * size) / sum(size) over the rows at positions 1..i
\* of that same frame.
C1_VwapOverOrderedPrefix ==
    pc \in PostSort =>
        \A i \in 1..Len(df) :
            LET n == SumOver([j \in 1..i |-> df[j].price * df[j].size], 1..i)
                v == SumOver([j \in 1..i |-> df[j].size], 1..i)
            IN  IF v = 0 \/ df[i].vwap.den = 0
                THEN v = 0 /\ df[i].vwap.den = 0
                ELSE df[i].vwap.num * v = n * df[i].vwap.den

\* C2: a vwap emitted at zero cumulative volume ends the pipeline in a
\* failure instead of an export: no export is made from a frame that holds
\* a NaN vwap, and no exported row has an empty vwap field.
C2_ZeroVolumeFails ==
    pc \in PostCsv =>
        /\ \A i \in 1..Len(df) : ~IsNaN(df[i].vwap)
        /\ \A i \in 1..Len(csv) : csv[i].vwap # <<>>

\* C3: a row is flagged hourly high (low) iff its price is the greatest
\* (least) price among the rows of its hour, and day high (low) iff its
\* price is the greatest (least) price of the whole filtered frame.
C3_LabelsExact ==
    pc \in PostFlag =>
        \A i \in 1..Len(df) :
            LET InHour == {df[j].price : j \in {m \in 1..Len(df) :
                                                  df[m].hour = df[i].hour}}
                InDay == {df[j].price : j \in 1..Len(df)}
            IN  /\ df[i].is_hourly_high <=> (\A q \in InHour : q <= df[i].price)
                /\ df[i].is_hourly_low <=> (\A q \in InHour : df[i].price <= q)
                /\ df[i].is_day_high <=> (\A q \in InDay : q <= df[i].price)
                /\ df[i].is_day_low <=> (\A q \in InDay : df[i].price <= q)

\* Two rows tie for the high of one hour and both are flagged, while a row
\* that is the high of its hour is not the high of the day.
C3_Witness ==
    /\ pc = "done"
    /\ \E i, j \in 1..Len(df) :
          /\ i # j
          /\ df[i].hour = df[j].hour
          /\ df[i].is_hourly_high /\ df[j].is_hourly_high
    /\ \E k \in 1..Len(df) : df[k].is_hourly_high /\ ~df[k].is_day_high

\* C4: the sorted frame is non-decreasing in ts_event, and rows with equal
\* ts_event keep the relative order they had in the fetched batch.
C4_StableSort ==
    pc \in PostSort =>
        \A i, j \in 1..Len(df) :
            i < j => /\ df[i].ts_event <= df[j].ts_event
                     /\ df[i].ts_event = df[j].ts_event => df[i].idx < df[j].idx

C6_EmptyRange ==
    (api_key /\ Kept = {}) =>
        /\ pc # "raised"
        /\ pc \in PostFilter => df = <<>>
        /\ pc \in PostFlag => hourly_stats = <<>>
        /\ pc \in PostCsv => csv = <<>>
        /\ pc = "done" => volume_by_minute = <<>>

\* A finished run over a batch that was not empty and had nothing in range.
C6_Witness ==
    /\ pc = "done"
    /\ Len(trades) = MaxLen
    /\ Kept = {}

\* C7: the sizes of volume_by_minute add up to the sizes of the fetched
\* trades that lie in the range.
C7_VolumeTotal ==
    pc = "done" =>
        SumOver([k \in 1..Len(volume_by_minute) |-> volume_by_minute[k].size],
                1..Len(volume_by_minute))
            = SumOver([i \in Kept |-> trades[i].size], Kept)

\* A finished run with two minutes, one of which holds two trades of
\* non-zero size.
C7_Witness ==
    /\ pc = "done"
    /\ Len(volume_by_minute) = 2
    /\ \E i, j \in 1..Len(df) :
          /\ i # j
          /\ df[i].ts_event_et \div UnitsPerMinute
                = df[j].ts_event_et \div UnitsPerMinute
          /\ df[i].size > 0 /\ df[j].size > 0

\* C8: volume_by_minute has one entry for each wall-clock minute in which
\* a row of the frame falls, none for any other minute, and its entries
\* are in strictly ascending order of their minute.
C8_MinuteEntries ==
    pc = "done" =>
        LET MinuteStart(w) == (w \div UnitsPerMinute) * UnitsPerMinute
            Present == {MinuteStart(df[i].ts_event_et) : i \in 1..Len(df)}
        IN  /\ {volume_by_minute[k].ts_event_et :
                  k \in 1..Len(volume_by_minute)} = Present
            /\ Len(volume_by_minute) = Cardinality(Present)
            /\ \A k \in 1..(Len(volume_by_minute) - 1) :
                  volume_by_minute[k].ts_event_et
                      < volume_by_minute[k + 1].ts_event_et

\* A finished run whose rows fall in three minutes, two of them in the
\* same hour, with minutes in between that hold no row.
C8_Witness ==
    /\ pc = "done"
    /\ Len(volume_by_minute) = 3
    /\ \E k \in 1..2 :
          /\ volume_by_minute[k].minute[2] = volume_by_minute[k + 1].minute[2]
          /\ volume_by_minute[k].minute[3] # volume_by_minute[k + 1].minute[3]

\* C9: the exported note is empty iff the row has no flag, and otherwise
\* names the first flag the row has in the order day low, day high, hour
\* low, hour high.
C9_NotePriority ==
    pc \in PostCsv =>
        \A i \in 1..Len(csv) :
            /\ csv[i].note = "" <=>
                  ~(df[i].is_hourly_high \/ df[i].is_hourly_low
                      \/ df[i].is_day_high \/ df[i].is_day_low)
            /\ df[i].is_day_low => csv[i].note = "DAY_LOW"
            /\ df[i].is_day_high /\ ~df[i].is_day_low
                  => csv[i].note = "DAY_HIGH"
            /\ df[i].is_hourly_low /\ ~df[i].is_day_high /\ ~df[i].is_day_low
                  => csv[i].note = "HOUR_LOW"
            /\ df[i].is_hourly_high /\ ~df[i].is_hourly_low
                  /\ ~df[i].is_day_high /\ ~df[i].is_day_low
                  => csv[i].note = "HOUR_HIGH"

\* An export with a row that has no flag, and two rows whose day flag
\* overrides the hour flag they also have.
C9_Witness ==
    /\ pc = "done"
    /\ \E i \in 1..Len(csv) : csv[i].note = ""
    /\ \E i \in 1..Len(csv) :
          df[i].is_hourly_low /\ df[i].is_day_low /\ csv[i].note = "DAY_LOW"
    /\ \E i \in 1..Len(csv) :
          df[i].is_hourly_high /\ df[i].is_day_high /\ csv[i].note = "DAY_HIGH"

\* C10: a row flagged day high (low) is flagged hourly high (low); in a
\* frame that is not empty every hour has a row flagged hourly high and a
\* row flagged hourly low, and some row is flagged day high and some row
\* day low.
C10_LabelsNested ==
    pc \in PostFlag =>
        /\ \A i \in 1..Len(df) :
              /\ df[i].is_day_high => df[i].is_hourly_high
              /\ df[i].is_day_low => df[i].is_hourly_low
              /\ \E j \in 1..Len(df) :
                    df[j].hour = df[i].hour /\ df[j].is_hourly_high
              /\ \E j \in 1..Len(df) :
                    df[j].hour = df[i].hour /\ df[j].is_hourly_low
        /\ Len(df) > 0 =>
              /\ \E i \in 1..Len(df) : df[i].is_day_high
              /\ \E i \in 1..Len(df) : df[i].is_day_low

\* Two hours, the day high met twice in one of them.
C10_Witness ==
    /\ pc = "done"
    /\ \E i, j \in 1..Len(df) :
          /\ i # j
          /\ df[i].hour = df[j].hour
          /\ df[i].is_day_high /\ df[j].is_day_high
    /\ \E k \in 1..Len(df) : ~df[k].is_day_high /\ df[k].is_hourly_high
====
